---- MODULE Spec2Model ----
(***************************************************************************)
(* Model of ip_freely.py: the program reads a CIDR string, expands it with *)
(* cidrToIPS (IPToInt, intToIP), and runList pings and reverse-resolves    *)
(* every host of the list in order, counting and recording each, then      *)
(* prints the summary and exports the rows.                                *)
(*                                                                         *)
(* Strings are sequences of one-character strings, so that split, int()    *)
(* and str() are computed and not assumed.  Python integers are unbounded; *)
(* an integer is kept as the set of its one-bits in two's complement, cut  *)
(* to the low IntBits bits (every result the program uses is masked to 32  *)
(* bits, and |, &, << are exact on the low bits).                          *)
(***************************************************************************)
EXTENDS Integers, Sequences, FiniteSets, TLC

VARIABLES cidr, pc, raised, prefix, ip_int, mask, network, broadcast, i, hosts,
          stage, response, answer, reachable, active, inactive, results, cancelAt,
          returned, exported

vars == <<cidr, pc, raised, prefix, ip_int, mask, network, broadcast, i, hosts,
          stage, response, answer, reachable, active, inactive, results, cancelAt,
          returned, exported>>

----------------------------------------------------------------------------
(* Bounds of the model *)

\* Elements the list comprehension of cidrToIPS may produce in the model.
MaxExpand == 4
\* Low bits kept of a Python integer.
IntBits == 40

----------------------------------------------------------------------------
(* Python builtins on strings: int(), str(), split(), join() *)

Digits == <<"0", "1", "2", "3", "4", "5", "6", "7", "8", "9">>

IsDigit(c) == \E d \in 1..10 : Digits[d] = c

DigitVal(c) == (CHOOSE d \in 1..10 : Digits[d] = c) - 1

Unsigned(s) == IF Len(s) > 0 /\ s[1] \in {"-", "+"} THEN Tail(s) ELSE s

\* int(s) raises ValueError unless s is an optional sign and one or more digits.
\* Leading zeros are accepted ("01" is 1).
IsIntLiteral(s) ==
    /\ Len(Unsigned(s)) > 0
    /\ \A k \in 1..Len(Unsigned(s)) : IsDigit(Unsigned(s)[k])

RECURSIVE DigitsVal(_)
DigitsVal(s) ==
    IF s = <<>> THEN 0
    ELSE 10 * DigitsVal(SubSeq(s, 1, Len(s) - 1)) + DigitVal(s[Len(s)])

PyInt(s) == IF s[1] = "-" THEN 0 - DigitsVal(Tail(s)) ELSE DigitsVal(Unsigned(s))

\* str(v) of a non-negative integer: decimal, no leading zeros.
RECURSIVE PyStr(_)
PyStr(v) ==
    IF v < 10 THEN <<Digits[v + 1]>>
    ELSE PyStr(v \div 10) \o <<Digits[(v % 10) + 1]>>

RECURSIVE Split(_, _)
Split(s, sep) ==
    IF \E k \in 1..Len(s) : s[k] = sep
    THEN LET k == CHOOSE k \in 1..Len(s) :
                      s[k] = sep /\ \A j \in 1..(k - 1) : s[j] # sep
         IN  <<SubSeq(s, 1, k - 1)>> \o Split(SubSeq(s, k + 1, Len(s)), sep)
    ELSE <<s>>

RECURSIVE Join(_, _)
Join(parts, sep) ==
    IF Len(parts) = 0 THEN <<>>
    ELSE IF Len(parts) = 1 THEN parts[1]
    ELSE parts[1] \o <<sep>> \o Join(Tail(parts), sep)

----------------------------------------------------------------------------
(* Python integers as bit sets *)

Window == 0..(IntBits - 1)

All32 == 0..31

\* The one-bits of v in two's complement, for |v| < 2^16 (every octet and
\* prefix literal of the model): the low 16 bits by division, the rest by sign.
Bits(v) ==
    {b \in Window : IF b < 16 THEN ((v % 65536) \div (2 ^ b)) % 2 = 1 ELSE v < 0}

ShiftLeft(S, k) == {b + k : b \in S} \cap Window

\* (n >> s) & 0xFF
RECURSIVE LowBitsVal(_, _, _)
LowBitsVal(n, s, width) ==
    IF width = 0 THEN 0
    ELSE (IF s \in n THEN 1 ELSE 0) + 2 * LowBitsVal(n, s + 1, width - 1)

ShiftRightByte(n, s) == LowBitsVal(n, s, 8)

\* n + 1
Inc(n) ==
    LET k == CHOOSE k \in Window : k \notin n /\ \A j \in 0..(k - 1) : j \in n
    IN  (n \ (0..(k - 1))) \cup {k}

\* a < b, for non-negative a and b
Less(a, b) ==
    \E k \in b \ a : \A j \in Window : j > k => (j \in a <=> j \in b)

----------------------------------------------------------------------------
(* IPToInt, intToIP, cidrToIPS *)

\* a, b, c, d = ip.split(".") and int() of each: ValueError otherwise.
IPToIntRaises(ip) ==
    \/ Len(Split(ip, ".")) # 4
    \/ \E k \in 1..4 : ~IsIntLiteral(Split(ip, ".")[k])

IPToInt(ip) ==
    LET p == Split(ip, ".")
    IN  ShiftLeft(Bits(PyInt(p[1])), 24) \cup ShiftLeft(Bits(PyInt(p[2])), 16)
          \cup ShiftLeft(Bits(PyInt(p[3])), 8) \cup Bits(PyInt(p[4]))

\* intToIP with the octets taken lowest first.
intToIPLittleEndian(n) ==
    Join(<<PyStr(ShiftRightByte(n, 0)), PyStr(ShiftRightByte(n, 8)),
           PyStr(ShiftRightByte(n, 16)), PyStr(ShiftRightByte(n, 24))>>, ".")

intToIP(n) ==
    Join(<<PyStr(ShiftRightByte(n, 24)), PyStr(ShiftRightByte(n, 16)),
           PyStr(ShiftRightByte(n, 8)), PyStr(ShiftRightByte(n, 0))>>, ".")

\* ip, prefix = cidr.split("/"); int(prefix); IPToInt(ip); a negative shift
\* count (prefix > 32) raises ValueError.
CidrRaises(c) ==
    \/ Len(Split(c, "/")) # 2
    \/ ~IsIntLiteral(Split(c, "/")[2])
    \/ IPToIntRaises(Split(c, "/")[1])
    \/ 32 - PyInt(Split(c, "/")[2]) < 0

\* (0xFFFFFFFF << (32 - prefix)) & 0xFFFFFFFF
SubnetMask(p) == ShiftLeft(All32, 32 - p) \cap All32

NetworkOf(ipInt, m) == ipInt \cap m

\* network | (~mask & 0xFFFFFFFF)
BroadcastOf(net, m) == net \cup ((Window \ m) \cap All32)

----------------------------------------------------------------------------
(* The strings typed at the prompt *)

Str0 == <<"0">>
Str1 == <<"1">>
Str01 == <<"0", "1">>
Str10 == <<"1", "0">>
Str168 == <<"1", "6", "8">>
Str192 == <<"1", "9", "2">>
Str255 == <<"2", "5", "5">>
Str256 == <<"2", "5", "6">>
StrA == <<"a">>
StrNeg1 == <<"-", "1">>
Str8 == <<"8">>
Str24 == <<"2", "4">>
Str30 == <<"3", "0">>
Str31 == <<"3", "1">>
Str32 == <<"3", "2">>
Str33 == <<"3", "3">>

MkCidr(ip, p) == ip \o <<"/">> \o p

IpInputs ==
    {Join(<<a, b, Str0, d>>, ".") :
        a \in {Str10, Str192}, b \in {Str0, Str168}, d \in {Str0, Str1, Str255}}
    \cup {Join(<<Str10, Str0, Str255, d>>, ".") : d \in {Str255, Str256, Str01, StrA}}
    \cup {Join(<<Str10, Str0, Str0, Str256>>, "."),
          Join(<<Str256, Str0, Str0, Str0>>, "."),
          Join(<<StrNeg1, Str0, Str0, Str0>>, "."),
          Join(<<Str10, Str0, Str0>>, "."),
          Join(<<Str10, Str0, Str0, Str0, Str0>>, ".")}

PrefixInputs == {Str0, Str8, Str24, Str31, Str32, Str33, StrNeg1, StrA}

\* The blocks of four hosts.
Slash30Inputs ==
    {MkCidr(Join(<<Str10, Str0, Str0, d>>, "."), Str30) : d \in {Str0, Str1, Str256}}
    \cup {MkCidr(Join(<<Str192, Str168, Str0, Str255>>, "."), Str30)}

CidrInputs ==
    {MkCidr(ip, p) : ip \in IpInputs, p \in PrefixInputs}
    \cup Slash30Inputs
    \cup {Join(<<Str10, Str0, Str0, Str0>>, "."),
          MkCidr(MkCidr(Join(<<Str10, Str0, Str0, Str0>>, "."), Str24), Str1)}

----------------------------------------------------------------------------
(* What the network answers *)

\* os.system's wait status of ping -c 1: 0 replied, 256 (exit 1) no reply
\* within the timeout, 512 (exit 2) any other error.
PingStatuses == {0, 256, 512}

\* os.system's wait status of a ping killed by SIGINT (signal 2).
KilledBySigint == 2

\* gethostbyaddr: a name, or h_errno (HOST_NOT_FOUND, TRY_AGAIN when the
\* resolver timed out, NO_RECOVERY, NO_DATA) raised as socket.herror, or a
\* getaddrinfo failure of the address raised as socket.gaierror.
DnsAnswers == {"ok", "HOST_NOT_FOUND", "TRY_AGAIN", "NO_RECOVERY", "NO_DATA", "EAI_NONAME"}

ExceptionOf(ans) ==
    IF ans = "ok" THEN "none"
    ELSE IF ans = "EAI_NONAME" THEN "gaierror"
    ELSE "herror"

None == "None"

----------------------------------------------------------------------------
(* reverseDNS, pingHost, exportToCSV *)

\* reverseDNS without its except socket.gaierror clause.
reverseDNSCatchesHerrorOnly == {"herror"}

\* The except clauses of reverseDNS; any other exception propagates.
reverseDNSCatches == {"herror", "gaierror"}

\* The sequential loop of runList: one address at a time.
ConcurrencyLimit == 1

reverseDNSRaises(ans) ==
    ExceptionOf(ans) # "none" /\ ExceptionOf(ans) \notin reverseDNSCatches

reverseDNS(ip, ans) ==
    IF ExceptionOf(ans) = "none"
    THEN [ip |-> ip, hostname |-> "ptr.example", aliases |-> <<>>, addresses |-> <<ip>>]
    ELSE IF ExceptionOf(ans) = "herror"
    THEN [ip |-> ip, hostname |-> None, aliases |-> <<>>, addresses |-> <<>>,
          error |-> "No PTR record found"]
    ELSE [ip |-> ip, hostname |-> None, aliases |-> <<>>, addresses |-> <<>>,
          error |-> "Invalid IP address"]

\* pingHost returns os.system's status; runList compares it with 0.
Reachable(rc) == rc = 0

\* One row of the CSV per result.
CsvRow(r) ==
    [IPAddress |-> r.ip,
     Status    |-> r.status,
     Hostname  |-> IF r.dns.hostname = None THEN "" ELSE r.dns.hostname,
     Aliases   |-> r.dns.aliases,
     Addresses |-> r.dns.addresses,
     DNSError  |-> IF "error" \in DOMAIN r.dns THEN r.dns.error ELSE ""]

exportToCSV(rs) == [k \in 1..Len(rs) |-> CsvRow(rs[k])]

----------------------------------------------------------------------------
(* The program.  returned and exported are empty until runList returns and  *)
(* exportToCSV writes; then they hold the value returned and the rows.      *)

Stages == {"Pending", "Probing", "Resolving", "Complete"}

Init ==
    /\ cidr \in CidrInputs
    /\ pc = "cidrToIPS"
    /\ raised = "none"
    /\ prefix = 0
    /\ ip_int = {}
    /\ mask = {}
    /\ network = {}
    /\ broadcast = {}
    /\ i = {}
    /\ hosts = <<>>
    /\ stage = <<>>
    /\ response = None
    /\ answer = None
    /\ reachable = <<>>
    /\ active = 0
    /\ inactive = 0
    /\ results = <<>>
    /\ cancelAt = -1
    /\ returned = <<>>
    /\ exported = <<>>

scanVars == <<stage, response, answer, reachable, active, inactive, results, cancelAt, returned, exported>>

\* cidrToIPS up to the list comprehension: the split, the mask, the bounds.
CidrParse ==
    /\ pc = "cidrToIPS"
    /\ IF CidrRaises(cidr)
       THEN /\ pc' = "raised"
            /\ raised' = "ValueError"
            /\ UNCHANGED <<prefix, ip_int, mask, network, broadcast, i>>
       ELSE LET p  == PyInt(Split(cidr, "/")[2])
                n  == IPToInt(Split(cidr, "/")[1])
                m  == SubnetMask(p)
            IN  /\ prefix' = p
                /\ ip_int' = n
                /\ mask' = m
                /\ network' = NetworkOf(n, m)
                /\ broadcast' = BroadcastOf(NetworkOf(n, m), m)
                /\ i' = NetworkOf(n, m)
                /\ pc' = "range"
                /\ UNCHANGED raised
    /\ UNCHANGED <<cidr, hosts>>
    /\ UNCHANGED scanVars

\* range(network, broadcast): the broadcast address left out.
RangeExcludesBroadcast == Less(i, broadcast)

\* range(network, broadcast + 1) still yields.
RangeHasNext == Less(i, Inc(broadcast))

\* One element of [intToIP(i) for i in range(network, broadcast + 1)].
RangeStep ==
    /\ pc = "range"
    /\ RangeHasNext
    /\ Len(hosts) < MaxExpand
    /\ hosts' = Append(hosts, intToIP(i))
    /\ i' = Inc(i)
    /\ UNCHANGED <<cidr, pc, raised, prefix, ip_int, mask, network, broadcast>>
    /\ UNCHANGED scanVars

\* The list is complete: cidrToIPS returns and runList starts.
RangeDone ==
    /\ pc = "range"
    /\ ~RangeHasNext
    /\ pc' = "runList"
    /\ stage' = [k \in 1..Len(hosts) |-> "Pending"]
    /\ reachable' = [k \in 1..Len(hosts) |-> FALSE]
    /\ active' = 0
    /\ inactive' = 0
    /\ results' = <<>>
    /\ UNCHANGED <<cidr, raised, prefix, ip_int, mask, network, broadcast, i, hosts,
                   response, answer, cancelAt, returned, exported>>

expandVars == <<cidr, prefix, ip_int, mask, network, broadcast, i, hosts>>

InFlight == {k \in DOMAIN stage : stage[k] \in {"Probing", "Resolving"}}

Admitted == {k \in DOMAIN stage : stage[k] # "Pending"}

\* A loop that starts the next host without waiting for the previous one.
CanAdmitAlways == TRUE

\* The for loop takes the next host only when the body of the previous
\* iteration has run to its end.
CanAdmit == InFlight = {}

\* for host in hosts: print, and pingHost starts ping through os.system.
Admit ==
    /\ pc = "runList"
    /\ CanAdmit
    /\ \E k \in DOMAIN stage :
          /\ stage[k] = "Pending"
          /\ \A j \in 1..(k - 1) : stage[j] # "Pending"
          /\ stage' = [stage EXCEPT ![k] = "Probing"]
    /\ UNCHANGED <<pc, raised, response, answer, reachable, active, inactive, results,
                   cancelAt, returned, exported>>
    /\ UNCHANGED expandVars

\* A loop that resolves only the hosts that answered the ping.
AfterProbeSkipUnreachable(isReachable) == IF isReachable THEN "Resolving" ELSE "Complete"

\* The stage after the ping of an address has returned.
AfterProbe(isReachable) == "Resolving"

\* os.system returns: reachable is set and reverseDNS calls gethostbyaddr.
PingReturns ==
    /\ pc = "runList"
    /\ \E k \in DOMAIN stage, status \in PingStatuses :
          /\ stage[k] = "Probing"
          /\ response' = status
          /\ reachable' = [reachable EXCEPT ![k] = Reachable(status)]
          /\ stage' = [stage EXCEPT ![k] = AfterProbe(Reachable(status))]
    /\ UNCHANGED <<pc, raised, answer, active, inactive, results, cancelAt, returned,
                   exported>>
    /\ UNCHANGED expandVars

\* The counters after the if/else on reachable.
ActiveAfter(isReachable) == IF isReachable THEN active + 1 ELSE active

\* An else branch that forgets inactive += 1.
InactiveAfterLost(isReachable) == inactive

InactiveAfter(isReachable) == IF isReachable THEN inactive ELSE inactive + 1

StatusOf(isReachable) == IF isReachable THEN "active" ELSE "inactive"

\* results.insert(0, ...)
StoreFront(rs, r) == <<r>> \o rs

\* results.append(...)
Store(rs, r) == Append(rs, r)

\* gethostbyaddr returns or raises: reverseDNS builds dns_info, the counter is
\* incremented and the result appended.
DnsReturns ==
    /\ pc = "runList"
    /\ \E k \in DOMAIN stage, a \in DnsAnswers :
          /\ stage[k] = "Resolving"
          /\ answer' = a
          /\ IF reverseDNSRaises(a)
             THEN /\ pc' = "raised"
                  /\ raised' = ExceptionOf(a)
                  /\ UNCHANGED <<stage, active, inactive, results>>
             ELSE /\ active' = ActiveAfter(reachable[k])
                  /\ inactive' = InactiveAfter(reachable[k])
                  /\ results' = Store(results,
                                      [ip |-> hosts[k], status |-> StatusOf(reachable[k]),
                                       dns |-> reverseDNS(hosts[k], a)])
                  /\ stage' = [stage EXCEPT ![k] = "Complete"]
                  /\ UNCHANGED <<pc, raised>>
    /\ UNCHANGED <<response, reachable, cancelAt, returned, exported>>
    /\ UNCHANGED expandVars

\* The loop is over: the summary is printed, the rows exported (export_csv is
\* True in the call of the entry point) and results returned.
Finish ==
    /\ pc = "runList"
    /\ \A k \in DOMAIN stage : stage[k] = "Complete"
    /\ exported' = <<exportToCSV(results)>>
    /\ returned' = <<results>>
    /\ pc' = "returned"
    /\ UNCHANGED <<raised, stage, response, answer, reachable, active, inactive, results,
                   cancelAt>>
    /\ UNCHANGED expandVars

\* The user interrupts the scan (SIGINT), once.  While os.system waits for
\* ping the calling process ignores SIGINT: ping dies, its status is not 0 and
\* the loop goes on.  Anywhere else KeyboardInterrupt is raised in runList,
\* which has no handler: nothing is returned and nothing exported.
Interrupt ==
    /\ pc = "runList"
    /\ cancelAt = -1
    /\ cancelAt' = Cardinality(Admitted)
    /\ IF \E k \in DOMAIN stage : stage[k] = "Probing"
       THEN /\ \E k \in DOMAIN stage :
                 /\ stage[k] = "Probing"
                 /\ reachable' = [reachable EXCEPT ![k] = Reachable(KilledBySigint)]
                 /\ stage' = [stage EXCEPT ![k] = AfterProbe(Reachable(KilledBySigint))]
            /\ response' = KilledBySigint
            /\ UNCHANGED <<pc, raised>>
       ELSE /\ pc' = "raised"
            /\ raised' = "KeyboardInterrupt"
            /\ UNCHANGED <<stage, response, reachable>>
    /\ UNCHANGED <<answer, active, inactive, results, returned, exported>>
    /\ UNCHANGED expandVars

Next ==
    \/ CidrParse
    \/ RangeStep
    \/ RangeDone
    \/ Admit
    \/ PingReturns
    \/ DnsReturns
    \/ Finish
    \/ Interrupt

Spec == Init /\ [][Next]_vars

----------------------------------------------------------------------------
(* What the specification calls a valid input, and its address arithmetic  *)
(* on octets                                                               *)

IpPart(c) == Split(c, "/")[1]

\* A decimal literal without sign or leading zero, at most maxv.
Canonical(s, maxv) ==
    /\ Len(s) \in 1..3
    /\ \A k \in 1..Len(s) : IsDigit(s[k])
    /\ (Len(s) > 1 => s[1] # "0")
    /\ DigitsVal(s) <= maxv

ValidIp(ip) ==
    /\ Len(Split(ip, ".")) = 4
    /\ \A k \in 1..4 : Canonical(Split(ip, ".")[k], 255)

ValidCidr(c) ==
    /\ Len(Split(c, "/")) = 2
    /\ ValidIp(Split(c, "/")[1])
    /\ Canonical(Split(c, "/")[2], 32)

RefOctets(c) == [k \in 1..4 |-> DigitsVal(Split(IpPart(c), ".")[k])]

RefPrefix(c) == DigitsVal(Split(c, "/")[2])

Min(a, b) == IF a < b THEN a ELSE b

Max(a, b) == IF a < b THEN b ELSE a

\* Host bits of a /p block that fall into octet k (octet 4 is the lowest).
HostBitsIn(p, k) == Min(8, Max(0, (32 - p) - 8 * (4 - k)))

RefNetwork(c) ==
    [k \in 1..4 |-> RefOctets(c)[k] - (RefOctets(c)[k] % (2 ^ HostBitsIn(RefPrefix(c), k)))]

RefBroadcast(c) ==
    [k \in 1..4 |-> RefNetwork(c)[k] + (2 ^ HostBitsIn(RefPrefix(c), k)) - 1]

RefSucc(t) ==
    IF t[4] < 255 THEN [t EXCEPT ![4] = @ + 1]
    ELSE IF t[3] < 255 THEN [t EXCEPT ![4] = 0, ![3] = @ + 1]
    ELSE IF t[2] < 255 THEN [t EXCEPT ![4] = 0, ![3] = 0, ![2] = @ + 1]
    ELSE [t EXCEPT ![4] = 0, ![3] = 0, ![2] = 0, ![1] = @ + 1]

RECURSIVE RefAdd(_, _)
RefAdd(t, n) == IF n = 0 THEN t ELSE RefAdd(RefSucc(t), n - 1)

RefDotted(t) == Join(<<PyStr(t[1]), PyStr(t[2]), PyStr(t[3]), PyStr(t[4])>>, ".")

Completed == {k \in DOMAIN stage : stage[k] = "Complete"}

----------------------------------------------------------------------------
(* The claims *)

\* C1: the records runList returns are as many as the input hosts and the
\* record at index k carries the host at index k; while the scan runs, the
\* records collected so far are the first hosts of the input, in input order.
C1_OutputOrder ==
    /\ Len(results) <= Len(hosts)
    /\ \A k \in 1..Len(results) : results[k].ip = hosts[k]
    /\ pc = "returned" =>
          /\ Len(returned[1]) = Len(hosts)
          /\ \A k \in 1..Len(hosts) : returned[1][k].ip = hosts[k]

\* A scan of four hosts has returned, answers differing between hosts.
C1_Witness ==
    /\ pc = "returned"
    /\ Len(hosts) = 4
    /\ returned[1][1].status # returned[1][4].status

\* C2: every completed address has incremented exactly one counter once, the
\* one its record's status names: the counters count the records by status,
\* their sum is the number of completed addresses, and after the loop the
\* number of input hosts.
C2_Counters ==
    /\ active + inactive = Len(results)
    /\ Len(results) = Cardinality(Completed)
    /\ active = Cardinality({k \in 1..Len(results) : results[k].status = "active"})
    /\ inactive = Cardinality({k \in 1..Len(results) : results[k].status = "inactive"})
    /\ \A k \in 1..Len(results) : results[k].status = "active" <=> reachable[k]
    /\ pc = "returned" => active + inactive = Len(hosts)

\* A scan has returned with hosts of both kinds counted.
C2_Witness ==
    /\ pc = "returned"
    /\ active >= 1
    /\ inactive >= 2

\* C3: never more than the limit of addresses (one: the loop is sequential)
\* are between the start of their ping and the end of their lookup, and an
\* address is admitted only in a step that starts with a free slot.
C3_BoundedInFlight ==
    /\ [](Cardinality(InFlight) <= ConcurrencyLimit)
    /\ [][Admitted' # Admitted /\ pc = "runList"
            => Cardinality(InFlight) < ConcurrencyLimit]_vars

\* An address is in flight while another is complete and a third waits.
C3_Witness ==
    /\ Cardinality(InFlight) = 1
    /\ Completed # {}
    /\ \E k \in DOMAIN stage : stage[k] = "Pending"

\* cidrToIPS has just returned its list: runList is entered and no host taken.
\* (The list and the locals of cidrToIPS never change afterwards.)
ExpandReturned == pc = "runList" /\ Admitted = {}

\* C4: for a valid address and a prefix length in 0..32, cidrToIPS does not
\* raise, and its list is the interval from ip & mask to (ip & mask) | ~mask:
\* while it is built and when it is returned it starts at the network address
\* and each element is the successor of the one before, none beyond the
\* broadcast address; returned, it ends at the broadcast address and has
\* 2^(32 - prefix) elements (only the address itself for a /32).
C4_ExpandIsInterval ==
    /\ raised = "ValueError" => ~ValidCidr(cidr)
    /\ ((pc = "range" \/ ExpandReturned) /\ ValidCidr(cidr)) =>
          /\ prefix = RefPrefix(cidr)
          /\ network \subseteq All32
          /\ broadcast \subseteq All32
          /\ intToIP(network) = RefDotted(RefNetwork(cidr))
          /\ intToIP(broadcast) = RefDotted(RefBroadcast(cidr))
          /\ \A j \in 1..Len(hosts) :
                hosts[j] = RefDotted(RefAdd(RefNetwork(cidr), j - 1))
          /\ \A j \in 1..Len(hosts) :
                ~Less(IPToInt(RefDotted(RefBroadcast(cidr))), IPToInt(hosts[j]))
    /\ (ExpandReturned /\ ValidCidr(cidr)) =>
          /\ Len(hosts) = 2 ^ (32 - prefix)
          /\ hosts[1] = RefDotted(RefNetwork(cidr))
          /\ hosts[Len(hosts)] = RefDotted(RefBroadcast(cidr))
          /\ (prefix = 32 => hosts = <<IpPart(cidr)>>)

\* A valid /30 whose address is not the network address has been expanded.
C4_Witness ==
    /\ ValidCidr(cidr)
    /\ ExpandReturned
    /\ prefix = 30
    /\ Len(hosts) = 4
    /\ ip_int # network

\* C5: an input that is not <dotted-ip>/<0-32> with octets in 0..255 is
\* rejected: cidrToIPS raises, no address is produced and no scan starts.
C5_InvalidRejected ==
    (~ValidCidr(cidr) /\ pc # "cidrToIPS") => (pc = "raised" /\ hosts = <<>>)

\* C6: no ping status and no resolver answer aborts the scan: no exception of
\* the lookup leaves reverseDNS, the address whose ping failed is recorded
\* inactive, the address whose lookup failed is recorded with its error and
\* no hostname, and runList returns only with a record for every host.
C6_FailureDoesNotAbort ==
    /\ raised \notin {"herror", "gaierror"}
    /\ \A k \in InFlight : stage[k] = "Resolving" => (reachable[k] <=> response = 0)
    /\ Len(results) > 0 =>
          LET r == results[Len(results)]
          IN  /\ answer # "ok" => /\ "error" \in DOMAIN r.dns
                                  /\ r.dns.error \in {"No PTR record found",
                                                      "Invalid IP address"}
                                  /\ r.dns.hostname = None
              /\ answer = "ok" => "error" \notin DOMAIN r.dns
              /\ (InFlight = {} /\ response # 0) => r.status = "inactive"
    /\ pc = "returned" => Len(returned[1]) = Len(hosts)

\* The lookup of the first host failed on its address, its ping had failed,
\* and the scan went on to record the last host.
C6_Witness ==
    /\ pc = "returned"
    /\ Len(hosts) >= 2
    /\ returned[1][1].status = "inactive"
    /\ "error" \in DOMAIN returned[1][1].dns
    /\ returned[1][1].dns.error = "Invalid IP address"
    /\ "error" \notin DOMAIN returned[1][Len(hosts)].dns

\* C7: a valid block of more than 65536 = 2^16 addresses (broadcast - network
\* has a bit at 16 or above) is refused with CapacityExceeded: no address of
\* the block is ever produced and no host probed.
C7_CapacityExceeded ==
    (ValidCidr(cidr) /\ pc # "cidrToIPS" /\ \E b \in broadcast \ network : b >= 16)
        => (hosts = <<>> /\ stage = <<>>)

\* C8: once the scan of a valid block is cancelled, with records completed
\* and hosts not yet admitted, no further address is admitted, and the scan
\* ends returning the records completed so far, each of them whole.
C8_CancelReturnsCompleted ==
    (ValidCidr(cidr) /\ cancelAt # -1 /\ cancelAt < Len(hosts) /\ results # <<>>) =>
        /\ Cardinality(Admitted) <= cancelAt
        /\ pc \in {"raised", "returned"} => returned = <<results>>

\* C9: a canonical dotted-decimal address comes back from intToIP(IPToInt(s))
\* unchanged, and every integer n the range yields comes back from
\* IPToInt(intToIP(n)): while the list is built and when it is returned, its
\* first element parses to network, each element to the successor of the one
\* before, the last one to the range's cursor - 1.
C9_RoundTrip ==
    (pc = "range" \/ ExpandReturned) =>
        /\ ValidIp(IpPart(cidr)) => intToIP(ip_int) = IpPart(cidr)
        /\ \A j \in 1..Len(hosts) : ~IPToIntRaises(hosts[j])
        /\ Len(hosts) > 0 => IPToInt(hosts[1]) = network
        /\ \A j \in 1..(Len(hosts) - 1) : IPToInt(hosts[j + 1]) = Inc(IPToInt(hosts[j]))
        /\ Len(hosts) > 0 => Inc(IPToInt(hosts[Len(hosts)])) = i

\* A canonical address with the top bit set, which is not its block's network
\* address, has been parsed and the range has yielded two addresses or more.
C9_Witness ==
    /\ pc = "range"
    /\ ValidIp(IpPart(cidr))
    /\ 31 \in ip_int
    /\ Len(hosts) >= 2
    /\ ip_int # network
    /\ 0 \in i

\* C10: an address only moves Pending -> Probing -> Resolving -> Complete, one
\* stage at a time: the lookup starts when the ping has returned, whatever it
\* returned, and the record is appended in the step that ends the lookup.
C10_StageOrder ==
    [][/\ \A k \in DOMAIN stage :
             stage'[k] # stage[k] =>
                 <<stage[k], stage'[k]>> \in {<<"Pending", "Probing">>,
                                              <<"Probing", "Resolving">>,
                                              <<"Resolving", "Complete">>}
       /\ Len(results') # Len(results) =>
             \E k \in DOMAIN stage :
                 /\ stage[k] = "Resolving"
                 /\ stage'[k] = "Complete"
                 /\ results' = Append(results, results'[Len(results')])
                 /\ results'[Len(results')].ip = hosts[k]]_vars

\* The lookup of a host that did not answer the ping is under way, after a
\* host that answered was completed.
C10_Witness ==
    /\ \E k \in DOMAIN stage : stage[k] = "Resolving" /\ ~reachable[k]
    /\ \E k \in Completed : reachable[k]

====
